---- MODULE Spec2Model ----
(***************************************************************************)
(* Model of app1.py, the HR attrition dashboard: one Streamlit script that *)
(* loads united.csv, derives columns, and renders KPIs and filterable      *)
(* charts top to bottom.  Every user interaction reruns the script.        *)
(* The sections that take a filter, the KPIs and the tenure summary are    *)
(* modelled; the gender chart and the heatmap, which no property below     *)
(* reads, are left out.                                                    *)
(*                                                                         *)
(* A table is a sequence of rows (records).  A rate is an exact fraction   *)
(* <<num, den>> in lowest terms; <<0, 0>> is the float NaN (0/0).          *)
(***************************************************************************)
EXTENDS Integers, Sequences, FiniteSets, TLC

VARIABLES csv, df, pc, kpi, jobrole_attr, selected, filtered_df, out, summary_rate

vars == <<csv, df, pc, kpi, jobrole_attr, selected, filtered_df, out, summary_rate>>

----------------------------------------------------------------------------
(* Bounds of the model: the sizes of the input tables that are explored.   *)

MaxRows == 3          \* rows of a table varying in Attrition and JobRole
MaxFilterRows == 2    \* rows of a table varying in OverTime, JobLevel, Attrition
MaxTenureRows == 2    \* rows of a table varying in YearsAtCompany, Attrition
MaxDistRows == 2      \* rows of a table varying in DistanceFromHome and Department
MaxYears == 10        \* largest YearsAtCompany in a table
MaxDist == 8          \* largest DistanceFromHome in a table
MaxRep == 8           \* largest run of identical rows in a table

----------------------------------------------------------------------------
(* Values.                                                                 *)

\* pandas' missing value in a numeric column (what .map gives an unmapped
\* label, and what read_csv gives an empty numeric cell)
NaN == -1
\* the missing value of a categorical (label) column
NaNLabel == "NaN"
\* float('inf'), the last tenure bin edge: above every YearsAtCompany
Inf == 1000000

NaNRate == <<0, 0>>
ZeroRate == <<0, 1>>

RECURSIVE GCD(_, _)
GCD(a, b) == IF b = 0 THEN a ELSE GCD(b, a % b)

\* 100 * k / n as a float: NaN when n = 0
Pct(k, n) == IF n = 0 THEN NaNRate
             ELSE LET g == GCD(100 * k, n) IN <<(100 * k) \div g, n \div g>>

IsNaNRate(r) == r[2] = 0

\* r > s on floats (a comparison with NaN is false)
RateGT(r, s) == /\ ~IsNaNRate(r) /\ ~IsNaNRate(s)
                /\ r[1] * s[2] > s[1] * r[2]

\* f"{rate:.1f}%": one decimal, round-half-even on the exact value; "nan" for NaN
FormatPct(r) ==
    IF IsNaNRate(r) THEN [nan |-> TRUE, tenths |-> 0]
    ELSE LET p == 10 * r[1]
             q == r[2]
             f == p \div q
             twice == 2 * (p % q)
         IN [nan |-> FALSE,
             tenths |-> IF twice < q THEN f
                        ELSE IF twice > q THEN f + 1
                        ELSE IF f % 2 = 0 THEN f ELSE f + 1]

----------------------------------------------------------------------------
(* The input file: united.csv, as read_csv returns it.                     *)

AttritionLabels == {"Yes", "No", "Maybe"}   \* "Maybe": any unrecognised label
OverTimeLabels == {"Yes", "No", "Maybe"}
\* JobRole values in sorted (groupby key) order
JobRoles == <<"A", "B", "C">>
JobLevels == <<1, 2>>

BaseRow == [Attrition |-> "No", OverTime |-> "No", JobRole |-> "A", JobLevel |-> 1,
            Department |-> "D1", DistanceFromHome |-> 1, YearsAtCompany |-> 0]

SeqsUpTo(S, n) == UNION {[1..k -> S] : k \in 0..n}

Rep(r, k) == [i \in 1..k |-> r]

RoleRows == {[BaseRow EXCEPT !.Attrition = a, !.JobRole = r] :
                a \in AttritionLabels, r \in {JobRoles[i] : i \in DOMAIN JobRoles}}

FilterRows == {[BaseRow EXCEPT !.OverTime = o, !.JobLevel = l, !.Attrition = a] :
                o \in OverTimeLabels, l \in {1, 2}, a \in {"Yes", "No"}}

TenureRows == {[BaseRow EXCEPT !.YearsAtCompany = y, !.Attrition = a] :
                y \in {NaN} \cup 0..MaxYears, a \in {"Yes", "No"}}

DistRows == {[BaseRow EXCEPT !.DistanceFromHome = d, !.Department = p] :
                d \in 0..MaxDist, p \in {"D1", "D2"}}

RepRows == {[BaseRow EXCEPT !.Attrition = a, !.JobRole = r, !.DistanceFromHome = d] :
                a \in AttritionLabels, r \in {"A", "B"}, d \in {1, MaxDist}}

\* a run of identical rows, followed by at most one other row
RepTables == {Rep(r, k) \o t : r \in RepRows, k \in 1..MaxRep, t \in SeqsUpTo(RepRows, 1)}

Tables == SeqsUpTo(RoleRows, MaxRows) \cup SeqsUpTo(FilterRows, MaxFilterRows)
          \cup SeqsUpTo(TenureRows, MaxTenureRows) \cup SeqsUpTo(DistRows, MaxDistRows)
          \cup RepTables

----------------------------------------------------------------------------
(* Derived columns (lines 26-41).                                          *)

\* df["Attrition"].map({'Yes': 1, 'No': 0}): an unmapped label becomes NaN
MapAttrition(label) == IF label = "Yes" THEN 1 ELSE IF label = "No" THEN 0 ELSE NaN

\* df["OverTime"].map({'Yes': True, 'No': False}), True as 1 and False as 0
MapOverTime(label) == IF label = "Yes" THEN 1 ELSE IF label = "No" THEN 0 ELSE NaN

tenure_bins == <<0, 2, 5, 10, Inf>>
tenure_labels == <<"0-2 years", "2-5 years", "5-10 years", "10+ years">>

\* pd.cut(x, bins, labels, right=False): the label of the bin [bins[i], bins[i+1])
\* that holds x; NaN when x is missing or in no bin
CutLeftClosed(x, bins, labels) ==
    IF x = NaN \/ ~\E i \in 1..(Len(bins) - 1) : bins[i] <= x /\ x < bins[i + 1]
    THEN NaNLabel
    ELSE labels[CHOOSE i \in 1..(Len(bins) - 1) : bins[i] <= x /\ x < bins[i + 1]]

\* pd.cut with its default right=True: the bin (bins[i], bins[i+1]]
CutRightClosedTenure(x, bins, labels) ==
    IF x = NaN \/ ~\E i \in 1..(Len(bins) - 1) : bins[i] < x /\ x <= bins[i + 1]
    THEN NaNLabel
    ELSE labels[CHOOSE i \in 1..(Len(bins) - 1) : bins[i] < x /\ x <= bins[i + 1]]

\* the tenure bucket had right=False been left out
YearsAtCompanyGroupRightClosed(y) == CutRightClosedTenure(y, tenure_bins, tenure_labels)

\* lines 33-41
YearsAtCompanyGroup(y) == CutLeftClosed(y, tenure_bins, tenure_labels)

\* lines 26-41: the table with its derived columns; rows keep their order
LoadTable(file) ==
    [i \in DOMAIN file |->
        [Attrition |-> MapAttrition(file[i].Attrition),
         OverTime |-> MapOverTime(file[i].OverTime),
         JobRole |-> file[i].JobRole,
         JobLevel |-> file[i].JobLevel,
         Department |-> file[i].Department,
         DistanceFromHome |-> file[i].DistanceFromHome,
         YearsAtCompany |-> file[i].YearsAtCompany,
         YearsAtCompanyGroup |-> YearsAtCompanyGroup(file[i].YearsAtCompany)]]

----------------------------------------------------------------------------
(* Aggregation helpers.                                                    *)

IsLeft(r) == r.Attrition = 1
IsStay(r) == r.Attrition = 0
HasAttrition(r) == r.Attrition # NaN

\* (x == 1).sum(), (x == 0).sum() and x.count() over the Attrition column
CountLeft(t) == Cardinality({i \in DOMAIN t : IsLeft(t[i])})
CountStay(t) == Cardinality({i \in DOMAIN t : IsStay(t[i])})
CountPresent(t) == Cardinality({i \in DOMAIN t : HasAttrition(t[i])})

\* t["Attrition"].mean() * 100: the mean skips NaN; NaN when nothing is left
MeanAttrition(t) == Pct(CountLeft(t), CountPresent(t))

\* the keys of a set in the order of a sorted sequence of all keys
RECURSIVE KeysInOrder(_, _)
KeysInOrder(order, present) ==
    IF order = <<>> THEN <<>>
    ELSE (IF Head(order) \in present THEN <<Head(order)>> ELSE <<>>)
         \o KeysInOrder(Tail(order), present)

\* groupby("JobRole").agg(count_JobRole, attrition_left, attrition_stay):
\* one row per JobRole present, in sorted key order (lines 59-62)
JobRoleGroup(t, role) ==
    LET g == SelectSeq(t, LAMBDA r : r.JobRole = role)
    IN [JobRole |-> role,
        count_JobRole |-> Len(g),
        attrition_left |-> Pct(CountLeft(g), Len(g)),
        attrition_stay |-> Pct(CountStay(g), Len(g))]

GroupByJobRole(t) ==
    LET keys == KeysInOrder(JobRoles, {t[i].JobRole : i \in DOMAIN t})
    IN [k \in DOMAIN keys |-> JobRoleGroup(t, keys[k])]

\* the ranking had ascending=False been left out
SortValuesAsc(rows) ==
    LET n == Len(rows)
        perms == {p \in [1..n -> 1..n] : \A i, j \in 1..n : i # j => p[i] # p[j]}
    IN {[i \in 1..n |-> rows[p[i]]] : p \in
           {q \in perms : \A i \in 1..n, j \in 1..n :
               i < j => ~RateGT(rows[q[i]].attrition_left, rows[q[j]].attrition_left)}}

\* sort_values(["attrition_left"], ascending=False): the default sort kind is
\* quicksort, which is not stable, so rows with equal keys come in any order.
\* The set of the results the sort may give.
SortValuesDesc(rows) ==
    LET n == Len(rows)
        perms == {p \in [1..n -> 1..n] : \A i, j \in 1..n : i # j => p[i] # p[j]}
    IN {[i \in 1..n |-> rows[p[i]]] : p \in
           {q \in perms : \A i \in 1..n, j \in 1..n :
               i < j => ~RateGT(rows[q[j]].attrition_left, rows[q[i]].attrition_left)}}

----------------------------------------------------------------------------
(* The script.  pc is the section the run executes next.                   *)

NoKpi == [overall_attrition_rate |-> NaNRate, level1_rate |-> NaNRate,
          early_tenure_rate |-> NaNRate, top_role |-> "", top_role_val |-> NaNRate,
          kpi1 |-> FormatPct(NaNRate), kpi2 |-> FormatPct(NaNRate),
          kpi3 |-> FormatPct(NaNRate), kpi4 |-> FormatPct(NaNRate)]

NoOut == [section |-> "none", shown |-> "none"]

NoSummary == [l \in {tenure_labels[i] : i \in DOMAIN tenure_labels} |-> NaNRate]

Init == /\ csv \in Tables
        /\ df = <<>>
        /\ pc = "load"
        /\ kpi = NoKpi
        /\ jobrole_attr = <<>>
        /\ selected = "All"
        /\ filtered_df = <<>>
        /\ out = NoOut
        /\ summary_rate = NoSummary

\* lines 26-41
Load == /\ pc = "load"
        /\ df' = LoadTable(csv)
        /\ pc' = "kpi"
        /\ UNCHANGED <<csv, kpi, jobrole_attr, selected, filtered_df, out, summary_rate>>

\* lines 47-48
overall_attrition_rate(t) == MeanAttrition(t)

\* lines 50-51
level1_rate(t) ==
    LET level1 == SelectSeq(t, LAMBDA r : r.JobLevel = 1)
    IN IF level1 # <<>> THEN MeanAttrition(level1) ELSE ZeroRate

\* lines 54-55
early_tenure_rate(t) ==
    LET early_tenure == SelectSeq(t, LAMBDA r : r.YearsAtCompany # NaN /\ r.YearsAtCompany <= 2)
    IN IF early_tenure # <<>> THEN MeanAttrition(early_tenure) ELSE ZeroRate

\* lines 47-70: the four KPIs and the job-role ranking
Kpis == /\ pc = "kpi"
        /\ \E ranking \in SortValuesDesc(GroupByJobRole(df)) :
             /\ jobrole_attr' = ranking
             /\ kpi' = [overall_attrition_rate |-> overall_attrition_rate(df),
                        level1_rate |-> level1_rate(df),
                        early_tenure_rate |-> early_tenure_rate(df),
                        top_role |-> IF ranking # <<>> THEN ranking[1].JobRole ELSE "N/A",
                        top_role_val |-> IF ranking # <<>> THEN ranking[1].attrition_left
                                         ELSE ZeroRate,
                        kpi1 |-> FormatPct(overall_attrition_rate(df)),
                        kpi2 |-> FormatPct(level1_rate(df)),
                        kpi3 |-> FormatPct(early_tenure_rate(df)),
                        kpi4 |-> IF ranking # <<>> THEN FormatPct(ranking[1].attrition_left)
                                 ELSE FormatPct(ZeroRate)]
        /\ pc' = "jobrole"
        /\ UNCHANGED <<csv, df, selected, filtered_df, out, summary_rate>>

----------------------------------------------------------------------------
(* Chart sections.  Each reads its selectbox, filters a copy of df and     *)
(* hands a figure, or a placeholder, to the page; an uncaught exception    *)
(* ends the run.                                                           *)

\* 'All' + sorted(df['Department'].dropna().unique())  (lines 81, 126)
DepartmentOptions(t) ==
    {"All"} \cup {t[i].Department : i \in DOMAIN t}

\* lines 83-85, 128-130
FilterByDepartment(t, sel) ==
    IF sel # "All" THEN SelectSeq(t, LAMBDA r : r.Department = sel) ELSE t

\* lines 81-106: attrition rate by job role, filtered by department
JobRoleChart ==
    /\ pc = "jobrole"
    /\ \E selected_dept \in DepartmentOptions(df) :
         LET fdf == FilterByDepartment(df, selected_dept)
         IN \E jobrole_attr_filtered \in SortValuesDesc(GroupByJobRole(fdf)) :
              /\ selected' = selected_dept
              /\ filtered_df' = fdf
              /\ out' = IF jobrole_attr_filtered # <<>>
                        THEN [section |-> "jobrole", shown |-> "plotly_chart",
                              data |-> jobrole_attr_filtered]
                        ELSE [section |-> "jobrole", shown |-> "info"]
    /\ pc' = "distance"
    /\ UNCHANGED <<csv, df, kpi, jobrole_attr, summary_rate>>

\* list(range(start, stop, step)) for start < stop or not
RECURSIVE Range(_, _, _)
Range(start, stop, step) ==
    IF start >= stop THEN <<>> ELSE <<start>> \o Range(start + step, stop, step)

SeqMin(t) == CHOOSE x \in {t[i].DistanceFromHome : i \in DOMAIN t} :
                \A i \in DOMAIN t : x <= t[i].DistanceFromHome
SeqMax(t) == CHOOSE x \in {t[i].DistanceFromHome : i \in DOMAIN t} :
                \A i \in DOMAIN t : x >= t[i].DistanceFromHome

\* lines 131-132
min_dist(t) == IF t # <<>> THEN SeqMin(t) ELSE 0
max_dist(t) == IF t # <<>> THEN SeqMax(t) ELSE 0

\* the width of a distance bucket (line 133)
BucketWidth == 7

\* lines 133-135
bin_edges(t) ==
    LET edges == IF max_dist(t) > 0
                 THEN Range(min_dist(t), max_dist(t) + BucketWidth, BucketWidth)
                 ELSE <<0, 1>>
    IN IF edges[Len(edges)] < max_dist(t) THEN Append(edges, max_dist(t) + 1) ELSE edges

\* line 136: the label f"{lower}-{upper-1}" is the pair of numbers it prints;
\* the literal "0-1" is <<0, 1>>
range_labels(edges) ==
    IF Len(edges) > 1
    THEN [i \in 1..(Len(edges) - 1) |-> <<edges[i], edges[i + 1] - 1>>]
    ELSE << <<0, 1>> >>

NaNRange == <<NaN, NaN>>

\* pd.cut(x, bins, labels, include_lowest=True), right=True by default: the
\* label of the bin (bins[i], bins[i+1]] that holds x, the first bin holding
\* bins[1] too; NaN when x is in no bin
CutRightClosed(x, bins, labels) ==
    LET holds(i) == \/ bins[i] < x /\ x <= bins[i + 1]
                    \/ i = 1 /\ x = bins[1]
    IN IF \E i \in 1..(Len(bins) - 1) : holds(i)
       THEN labels[CHOOSE i \in 1..(Len(bins) - 1) : holds(i)]
       ELSE NaNRange

\* line 137: the column is the constant "0-1" when there is one edge only
DistanceFromHomeRange(x, edges) ==
    IF Len(edges) > 1 THEN CutRightClosed(x, edges, range_labels(edges)) ELSE <<0, 1>>

WithDistanceRange(t) ==
    LET edges == bin_edges(t)
    IN [i \in DOMAIN t |->
          [Attrition |-> t[i].Attrition, OverTime |-> t[i].OverTime,
           JobRole |-> t[i].JobRole, JobLevel |-> t[i].JobLevel,
           Department |-> t[i].Department,
           DistanceFromHome |-> t[i].DistanceFromHome,
           YearsAtCompany |-> t[i].YearsAtCompany,
           YearsAtCompanyGroup |-> t[i].YearsAtCompanyGroup,
           DistanceFromHomeRange |-> DistanceFromHomeRange(t[i].DistanceFromHome, edges)]]

\* lines 139-141: groupby(["DistanceFromHomeRange", "JobRole"]).agg(count,
\* attrition_left), one row per combination that has rows, in key order.
\* count counts the rows whose Attrition is not NaN; rows with a NaN range are
\* dropped.  (Combinations without rows have count 0 and never pass line 143.)
RangeRoleGroup(t, label, role) ==
    LET g == SelectSeq(t, LAMBDA r : r.DistanceFromHomeRange = label /\ r.JobRole = role)
    IN [DistanceFromHomeRange |-> label, JobRole |-> role,
        count |-> CountPresent(g),
        attrition_left |-> Pct(CountLeft(g), Len(g))]

RECURSIVE Flatten(_)
Flatten(ss) == IF ss = <<>> THEN <<>> ELSE Head(ss) \o Flatten(Tail(ss))

GroupByRangeRole(t, labels) ==
    LET present == {<<t[i].DistanceFromHomeRange, t[i].JobRole>> : i \in DOMAIN t}
        rolesOf(label) == KeysInOrder(JobRoles, {k[2] : k \in {q \in present : q[1] = label}})
    IN Flatten([l \in DOMAIN labels |->
                  [k \in DOMAIN rolesOf(labels[l]) |->
                      RangeRoleGroup(t, labels[l], rolesOf(labels[l])[k])]])

\* the largest count that is suppressed (line 143)
SuppressBelow == 7

\* the suppression had the comparison been >=
SuppressOffByOne(rows) == SelectSeq(rows, LAMBDA g : g.count >= SuppressBelow)

\* line 143: summary[summary["count"] > 7]
Suppress(rows) == SelectSeq(rows, LAMBDA g : g.count > SuppressBelow)

\* lines 126-150: attrition by distance range and job role, filtered by department
DistanceChart ==
    /\ pc = "distance"
    /\ \E selected_dept2 \in DepartmentOptions(df) :
         LET fdf == WithDistanceRange(FilterByDepartment(df, selected_dept2))
             edges == bin_edges(fdf)
             summary == Suppress(GroupByRangeRole(fdf, range_labels(edges)))
         IN /\ selected' = selected_dept2
            /\ filtered_df' = fdf
            /\ out' = IF summary # <<>>
                      THEN [section |-> "distance", shown |-> "plotly_chart",
                            bin_edges |-> edges, data |-> summary]
                      ELSE [section |-> "distance", shown |-> "info",
                            bin_edges |-> edges, data |-> summary]
    /\ pc' = "overtime"
    /\ UNCHANGED <<csv, df, kpi, jobrole_attr, summary_rate>>

\* the Attrition values that become the columns of a cross-tabulation: those
\* that occur in the rows counted
AttritionColumns(t) == {t[i].Attrition : i \in DOMAIN t} \ {NaN}

\* overtime_attrition["Left"], ["Stayed"] (lines 168-169, 193-194, 220-221):
\* a column that is absent raises KeyError
HasLeftAndStayed(t) == {0, 1} \subseteq AttritionColumns(t)

\* lines 160-162
FilterByOverTime(t, sel) ==
    IF sel # "All"
    THEN SelectSeq(t, LAMBDA r : r.OverTime = (IF sel = "Yes" THEN 1 ELSE 0))
    ELSE t

\* lines 163-164: the OverTimeLabel column, added to the filtered copy
overtime_labels(flag) ==
    IF flag = 1 THEN "Did Overtime"
    ELSE IF flag = 0 THEN "Did Not Do Overtime" ELSE NaNLabel

WithOverTimeLabel(t) ==
    [i \in DOMAIN t |->
       [Attrition |-> t[i].Attrition, OverTime |-> t[i].OverTime,
        JobRole |-> t[i].JobRole, JobLevel |-> t[i].JobLevel,
        Department |-> t[i].Department,
        DistanceFromHome |-> t[i].DistanceFromHome,
        YearsAtCompany |-> t[i].YearsAtCompany,
        YearsAtCompanyGroup |-> t[i].YearsAtCompanyGroup,
        OverTimeLabel |-> overtime_labels(t[i].OverTime)]]

\* line 165: pd.crosstab(OverTimeLabel, Attrition, normalize='index') * 100 over
\* the rows where both are present; one row per label present, in label
\* order ("Did Not Do Overtime" < "Did Overtime")
overtime_attrition(t) ==
    LET valid == SelectSeq(t, LAMBDA r : r.OverTimeLabel # NaNLabel /\ r.Attrition # NaN)
        keys == KeysInOrder(<<"Did Not Do Overtime", "Did Overtime">>,
                            {valid[i].OverTimeLabel : i \in DOMAIN valid})
    IN [k \in DOMAIN keys |->
          LET g == SelectSeq(valid, LAMBDA r : r.OverTimeLabel = keys[k])
          IN [OverTimeLabel |-> keys[k],
              Left |-> Pct(CountLeft(g), Len(g)),
              Stayed |-> Pct(CountStay(g), Len(g))]]

\* lines 158-172: attrition by overtime, filtered by overtime
OvertimeChart ==
    /\ pc = "overtime"
    /\ \E selected_overtime \in {"All", "Yes", "No"} :
         LET fdf == WithOverTimeLabel(FilterByOverTime(df, selected_overtime))
             valid == SelectSeq(fdf, LAMBDA r : r.OverTimeLabel # NaNLabel)
         IN /\ selected' = selected_overtime
            /\ filtered_df' = fdf
            /\ IF HasLeftAndStayed(valid)
               THEN /\ out' = [section |-> "overtime", shown |-> "plotly_chart",
                               data |-> overtime_attrition(fdf)]
                    /\ pc' = "joblevel"
               ELSE /\ out' = [section |-> "overtime", shown |-> "exception"]
                    /\ pc' = "error"
    /\ UNCHANGED <<csv, df, kpi, jobrole_attr, summary_rate>>

\* str(jl) and int(selected_level) (lines 181, 184)
LevelText == <<"1", "2">>
StrOfLevel(l) == LevelText[l]
IntOfText(s) == CHOOSE l \in DOMAIN LevelText : LevelText[l] = s

\* line 181
JobLevelOptions(t) == {"All"} \cup {StrOfLevel(t[i].JobLevel) : i \in DOMAIN t}

\* lines 182-184
FilterByJobLevel(t, sel) ==
    IF sel # "All" THEN SelectSeq(t, LAMBDA r : r.JobLevel = IntOfText(sel)) ELSE t

\* groupby(key)["Attrition"].value_counts(normalize=True).unstack() * 100
\* (lines 185-191, 212-218): one row per key that has a row with Attrition
\* present, shares over those rows; a cell whose value does not occur is NaN
ValueShares(t, column, keyOrder) ==
    LET valid == SelectSeq(t, HasAttrition)
        keys == KeysInOrder(keyOrder, {valid[i][column] : i \in DOMAIN valid})
        share(n, total) == IF n = 0 THEN NaNRate ELSE Pct(n, total)
    IN [k \in DOMAIN keys |->
          LET g == SelectSeq(valid, LAMBDA r : r[column] = keys[k])
          IN [key |-> keys[k],
              Stayed |-> share(CountStay(g), Len(g)),
              Left |-> share(CountLeft(g), Len(g))]]

\* lines 180-197: attrition by job level, filtered by job level
JobLevelChart ==
    /\ pc = "joblevel"
    /\ \E selected_level \in JobLevelOptions(df) :
         LET fdf == FilterByJobLevel(df, selected_level)
         IN /\ selected' = selected_level
            /\ filtered_df' = fdf
            /\ IF HasLeftAndStayed(fdf)
               THEN /\ out' = [section |-> "joblevel", shown |-> "plotly_chart",
                               data |-> ValueShares(fdf, "JobLevel", JobLevels)]
                    /\ pc' = "tenure"
               ELSE /\ out' = [section |-> "joblevel", shown |-> "exception"]
                    /\ pc' = "error"
    /\ UNCHANGED <<csv, df, kpi, jobrole_attr, summary_rate>>

\* line 205
bins == <<0, 2, 5, 10, Inf>>

\* the second derivation had right=False been left out
YearsAtCompanyGroupAgainRightClosed(y) == CutRightClosedTenure(y, bins, tenure_labels)

\* line 207: the tenure bucket, derived again
YearsAtCompanyGroupAgain(y) == CutLeftClosed(y, bins, tenure_labels)

\* line 207: df["YearsAtCompanyGroup"] = pd.cut(...), written into df itself
Rederive(t) ==
    [i \in DOMAIN t |->
       [t[i] EXCEPT !.YearsAtCompanyGroup = YearsAtCompanyGroupAgain(t[i].YearsAtCompany)]]

\* line 208
TenureOptions == {"All"} \cup {tenure_labels[i] : i \in DOMAIN tenure_labels}

\* lines 209-211
FilterByTenure(t, sel) ==
    IF sel # "All" THEN SelectSeq(t, LAMBDA r : r.YearsAtCompanyGroup = sel) ELSE t

\* lines 205-224: attrition by years at company, filtered by tenure bucket.
\* (Buckets without rows are left out of the record of the figure.)
TenureChart ==
    /\ pc = "tenure"
    /\ df' = Rederive(df)
    /\ \E selected_tenure \in TenureOptions :
         LET fdf == FilterByTenure(df', selected_tenure)
             grouped == SelectSeq(fdf, LAMBDA r : r.YearsAtCompanyGroup # NaNLabel)
         IN /\ selected' = selected_tenure
            /\ filtered_df' = fdf
            /\ IF HasLeftAndStayed(grouped)
               THEN /\ out' = [section |-> "tenure", shown |-> "plotly_chart",
                               data |-> ValueShares(grouped, "YearsAtCompanyGroup",
                                                   tenure_labels)]
                    /\ pc' = "summary"
               ELSE /\ out' = [section |-> "tenure", shown |-> "exception"]
                    /\ pc' = "error"
    /\ UNCHANGED <<csv, kpi, jobrole_attr, summary_rate>>

\* lines 235-237: groupby("YearsAtCompanyGroup")["Attrition"].mean() * 100,
\* reindexed by the four labels: NaN for a bucket without rows
SummaryRate(t) ==
    [l \in {tenure_labels[i] : i \in DOMAIN tenure_labels} |->
        MeanAttrition(SelectSeq(t, LAMBDA r : r.YearsAtCompanyGroup = l))]

\* lines 235-264: the summary bar chart
SummaryChart ==
    /\ pc = "summary"
    /\ summary_rate' = SummaryRate(df)
    /\ out' = [section |-> "summary", shown |-> "plotly_chart"]
    /\ pc' = "done"
    /\ UNCHANGED <<csv, df, kpi, jobrole_attr, selected, filtered_df>>

\* a widget change, or a reload of the page, runs the script again from the top
\* with nothing kept but the file
Rerun ==
    /\ pc \in {"done", "error"}
    /\ pc' = "load"
    /\ df' = <<>>
    /\ kpi' = NoKpi
    /\ jobrole_attr' = <<>>
    /\ selected' = "All"
    /\ filtered_df' = <<>>
    /\ out' = NoOut
    /\ summary_rate' = NoSummary
    /\ UNCHANGED csv

Next == \/ Load
        \/ Kpis
        \/ JobRoleChart
        \/ DistanceChart
        \/ OvertimeChart
        \/ JobLevelChart
        \/ TenureChart
        \/ SummaryChart
        \/ Rerun

Spec == Init /\ [][Next]_vars

----------------------------------------------------------------------------
(* Properties.                                                             *)

Loaded == pc # "load"
KpisShown == pc \notin {"load", "kpi"}
Rows(t) == {t[i] : i \in DOMAIN t}
TenureLabelSet == {tenure_labels[i] : i \in DOMAIN tenure_labels}

\* left + stayed = 100 for the rows of a job-role aggregate
SumsTo100(rows) ==
    \A i \in DOMAIN rows :
       rows[i].count_JobRole > 0 =>
          LET l == rows[i].attrition_left
              s == rows[i].attrition_stay
          IN l[1] * s[2] + s[1] * l[2] = 100 * l[2] * s[2]

\* C1: every group of a job-role aggregate (over the whole table, and over
\* the table filtered by department) with member count > 0 has
\* attrition_left + attrition_stay = 100.
C1_LeftPlusStayedIs100 ==
    /\ SumsTo100(jobrole_attr)
    /\ (out.section = "jobrole" /\ out.shown = "plotly_chart") => SumsTo100(out.data)

FirstAppearance(t, role) ==
    CHOOSE i \in DOMAIN t : t[i].JobRole = role /\ \A j \in 1..(i - 1) : t[j].JobRole # role

\* rate r is at least rate s, by cross-multiplication
AtLeast(r, s) == r[1] * s[2] >= s[1] * r[2]

\* the ranking holds each job role of the table once, with its left-rate
RanksEveryRole ==
    /\ {jobrole_attr[i].JobRole : i \in DOMAIN jobrole_attr} = {r.JobRole : r \in Rows(df)}
    /\ Len(jobrole_attr) = Cardinality({r.JobRole : r \in Rows(df)})
    /\ \A i \in DOMAIN jobrole_attr :
          LET members == {k \in DOMAIN df : df[k].JobRole = jobrole_attr[i].JobRole}
              left == {k \in members : df[k].Attrition = 1}
          IN jobrole_attr[i].attrition_left[1] * Cardinality(members)
                = 100 * Cardinality(left) * jobrole_attr[i].attrition_left[2]

SortedByLeftRateDesc ==
    \A i, j \in DOMAIN jobrole_attr :
       i < j => AtLeast(jobrole_attr[i].attrition_left, jobrole_attr[j].attrition_left)

TopRoleIsFirst ==
    jobrole_attr # <<>> =>
       /\ kpi.top_role = jobrole_attr[1].JobRole
       /\ kpi.top_role_val = jobrole_attr[1].attrition_left
       /\ kpi.kpi4 = FormatPct(jobrole_attr[1].attrition_left)

\* the ranking leaves roles with equal left-rate in the order groupby hands
\* them to the sort (sorted JobRole key), as a stable sort does
TiesInKeyOrder ==
    \A i, j \in DOMAIN jobrole_attr :
       (i < j /\ jobrole_attr[i].attrition_left = jobrole_attr[j].attrition_left)
          => \E a, b \in DOMAIN JobRoles :
                /\ a < b
                /\ JobRoles[a] = jobrole_attr[i].JobRole
                /\ JobRoles[b] = jobrole_attr[j].JobRole

\* C2 as stated: the ranking is sorted by left-rate descending, roles with
\* equal left-rate come in the order of their first appearance in the table,
\* and the Highest Risk Role KPI is the first entry.  (Taken on the rankings
\* that a stable sort gives, which every build can produce.)
C2_TiesInFirstAppearanceOrder ==
    (KpisShown /\ TiesInKeyOrder) =>
       /\ SortedByLeftRateDesc
       /\ \A i, j \in DOMAIN jobrole_attr :
             (i < j /\ jobrole_attr[i].attrition_left = jobrole_attr[j].attrition_left)
                => FirstAppearance(df, jobrole_attr[i].JobRole)
                      < FirstAppearance(df, jobrole_attr[j].JobRole)
       /\ TopRoleIsFirst

\* C2 as amended: the ranking holds every job role once, sorted by left-rate
\* descending, and the Highest Risk Role KPI is its first entry; the order of
\* roles with equal left-rate is not fixed.
C2_SortedDescTopFirst ==
    KpisShown => RanksEveryRole /\ SortedByLeftRateDesc /\ TopRoleIsFirst

\* three roles ranked, the first two tied and in key order, the one that
\* appears first in the table ranked second
C2_Witness ==
    /\ KpisShown
    /\ Len(jobrole_attr) = 3
    /\ jobrole_attr[1].attrition_left = jobrole_attr[2].attrition_left
    /\ jobrole_attr[2].attrition_left # jobrole_attr[3].attrition_left
    /\ TiesInKeyOrder
    /\ df[1].JobRole = jobrole_attr[2].JobRole
    /\ kpi.top_role = jobrole_attr[1].JobRole

FilteredSections == {"jobrole", "distance", "overtime", "joblevel", "tenure"}

\* C3: whatever the filter and the option, a filtered table without rows
\* gives the "no data" placeholder, never an error.
C3_EmptyFilterShowsPlaceholder ==
    (out.section \in FilteredSections /\ filtered_df = <<>>) => out.shown = "info"

ZeroPct == [nan |-> FALSE, tenths |-> 0]

\* C4: a KPI computed over a table without rows reports 0.0% (the highest
\* risk role: N/A and 0.0%), never NaN.
C4_EmptyKpiIsZero ==
    KpisShown =>
       /\ df = <<>> => kpi.kpi1 = ZeroPct
       /\ (~\E r \in Rows(df) : r.JobLevel = 1) => kpi.kpi2 = ZeroPct
       /\ (~\E r \in Rows(df) : r.YearsAtCompany # NaN /\ r.YearsAtCompany <= 2)
             => kpi.kpi3 = ZeroPct
       /\ df = <<>> => kpi.top_role = "N/A" /\ kpi.kpi4 = ZeroPct

\* C5: no row with an unrecognised Attrition or OverTime label, or without
\* YearsAtCompany, is in the derived table: each row there has a 0/1 outcome,
\* a 0/1 overtime flag and a tenure bucket.
C5_NoMissingValueCarried ==
    Loaded => \A r \in Rows(df) :
                 /\ r.Attrition \in {0, 1}
                 /\ r.OverTime \in {0, 1}
                 /\ r.YearsAtCompanyGroup \in TenureLabelSet

\* C6: the bucket boundaries start at the smallest distance and step by 7 up
\* to the first one above the largest distance, and each distance d has the
\* label "{lower}-{upper-1}" with lower <= d <= upper-1.
C6_DistanceInLabelledBucket ==
    (out.section = "distance" /\ filtered_df # <<>>) =>
       LET e == out.bin_edges
       IN /\ e[1] = min_dist(filtered_df)
          /\ \A i \in 1..(Len(e) - 1) : e[i + 1] = e[i] + 7
          /\ e[Len(e)] > max_dist(filtered_df)
          /\ \A i \in 1..(Len(e) - 1) : e[i] <= max_dist(filtered_df)
          /\ \A r \in Rows(filtered_df) :
                /\ r.DistanceFromHomeRange[1] <= r.DistanceFromHome
                /\ r.DistanceFromHome <= r.DistanceFromHomeRange[2]
                /\ \E i \in 1..(Len(e) - 1) :
                      r.DistanceFromHomeRange = <<e[i], e[i + 1] - 1>>

\* the bucket of the half-open ranges [0,2), [2,5), [5,10), [10,inf)
BucketOfYears(y) ==
    IF y < 2 THEN "0-2 years"
    ELSE IF y < 5 THEN "2-5 years"
    ELSE IF y < 10 THEN "5-10 years"
    ELSE "10+ years"

CountedRows(label, role) ==
    {i \in DOMAIN filtered_df :
        /\ filtered_df[i].DistanceFromHomeRange = label
        /\ filtered_df[i].JobRole = role
        /\ filtered_df[i].Attrition # NaN}

C9_TableUnchangedAfterLoad ==
    [][(pc # "load" /\ pc' # "load") => df' = df]_vars

\* the tenure section has derived the column again and filtered by a bucket
C9_Witness ==
    /\ out.section = "tenure"
    /\ selected \in TenureLabelSet
    /\ Len(df) >= 2
    /\ \E r \in Rows(df) : r.YearsAtCompany = 2
    /\ Len(filtered_df) < Len(df)

\* C10: the 0-2yr Attrition KPI is the left-rate of the "0-2 years" bucket of
\* the tenure summary (compared where that bucket has rows).
C10_EarlyTenureKpiIsBucketRate ==
    (pc = "done" /\ ~IsNaNRate(summary_rate["0-2 years"])) =>
       kpi.early_tenure_rate = summary_rate["0-2 years"]

====
